---- MODULE Spec2Model ----
(***************************************************************************)
(* Latest<M> / LatestReader<M> of src/main.rs: a single-writer,            *)
(* multi-reader "latest value" cell.  The Writer owns a pool q of          *)
(* reference-counted slots (Vec<Arc<M>>) and a shared cell                 *)
(* latest : Arc<ArcCell<M>>; Readers hold a Weak<ArcCell<M>>.              *)
(*                                                                         *)
(* Slots are identified by their index in q (0-based, as in the source).   *)
(* Every Arc operation is one atomic step of the thread that performs it.  *)
(* ArcCell (crossbeam) stores the Arc as a word: take() swaps the word     *)
(* with 0 and spins while it reads 0, put() stores it back; get() is       *)
(* take / Arc::clone / put and set() is take / put.  A thread spinning in  *)
(* take() is modelled as a thread whose step is not enabled.               *)
(***************************************************************************)
EXTENDS Integers, Sequences, FiniteSets, TLC

\* ---------------------------------------------------------------- bounds
MaxCap     == 3      \* capacities 0..MaxCap are tried
MaxReaders == 2      \* reader threads
MaxSets    == 2      \* set() calls the Writer makes

\* -------------------------------------------------------------- constants
MinCap   == 2        \* debug_assert!(cap >= 2)
Default  == 0        \* M::default()
InitIdx  == 1        \* index: 1 in Latest::new
NoSlot   == -1       \* the word 0 of an ArcCell that has been taken / no Arc held
Absent   == -1       \* Option::None returned by get()
NoResult == -2       \* get() has not produced its result

Readers  == 1..MaxReaders
Observer == 1        \* the Reader whose successive results are recorded
MaxProbes == MaxCap + 1      \* the probe counter saturates here

VARIABLES
    writer,          \* "none" | "alive" | "dropping" | "dropped" | "panicked"
    nr,              \* number of reader threads that run
    qlen,            \* q.len()
    val,             \* val[i]: the M inside slot i
    strong,          \* strong[i]: Arc strong count of slot i
    index,           \* self.index
    latest,          \* the word of the ArcCell: a slot, or NoSlot while taken
    latestStrong,    \* strong count of Arc<ArcCell<M>>
    latestWeak,      \* number of Weak<ArcCell<M>> handles
    wpc,             \* Writer's position inside set()
    msg,             \* argument of the set() in progress
    new,             \* slot claimed by the set() in progress
    old,             \* Arc returned by ArcCell::take inside latest.set
    probes,          \* probe attempts of the set() in progress (saturating)
    handle,          \* handle[r]: reader thread r owns a LatestReader
    rpc,             \* reader's position inside get()
    held,            \* held[r]: slot whose Arc<M> reader r holds, or NoSlot
    res,             \* res[r]: the value r's get() is about to return / Absent
    \* history variables (not program state)
    nset,            \* set() calls begun
    hval,            \* hval[r]: the M of slot held[r] when r acquired the Arc
    last,            \* the value the Observer's latest successful get() returned
    quiet,           \* quiet[r]: r's get() in progress began with the Writer idle
    late,            \* late[r]: r's get() in progress began after the Writer was dropped
    calm             \* the set() in progress began, and has run, with no get() in progress

vars == <<writer, nr, qlen, val, strong, index, latest,
          latestStrong, latestWeak, wpc, msg, new, old, probes, handle, rpc,
          held, res, nset, hval, last, quiet, late, calm>>

wvars == <<wpc, msg, new, old, probes>>
rvars == <<handle, rpc, held, res>>
hist  == <<nset, hval, last, quiet, late, calm>>

Slots == 0..(qlen - 1)

\* ------------------------------------------------------------ construction
\* Before Latest::new has run: the caller's capacity is not yet consumed.
Init ==
    /\ writer = "none"
    /\ nr \in Readers
    /\ qlen \in 0..MaxCap          \* the argument cap of Latest::new
    /\ val = [i \in {} |-> Default]
    /\ strong = [i \in {} |-> 0]
    /\ index = 0
    /\ latest = NoSlot /\ latestStrong = 0 /\ latestWeak = 0
    /\ wpc = "idle" /\ msg = Default /\ new = NoSlot /\ old = NoSlot /\ probes = 0
    /\ handle = [r \in Readers |-> FALSE]
    /\ rpc = [r \in Readers |-> "idle"]
    /\ held = [r \in Readers |-> NoSlot]
    /\ res = [r \in Readers |-> NoResult]
    /\ nset = 0
    /\ hval = [r \in Readers |-> Default]
    /\ last = Default
    /\ quiet = [r \in Readers |-> FALSE]
    /\ late = [r \in Readers |-> FALSE]
    /\ calm = FALSE

\* debug_assert!(cap >= 2): checked only in builds with debug assertions.
CapAccepted(debugAssertions, cap) == debugAssertions => cap >= MinCap

\* Arc::new(Default::default()): the M a new slot holds
InitValIndexed(i) == i
InitVal(i) == Default

\* Latest::new(cap): the assertion, cap default slots, latest = q[0].clone(),
\* index = 1.  q.get(0).unwrap() panics on an empty q.
New(debugAssertions) ==
    /\ writer = "none"
    /\ IF CapAccepted(debugAssertions, qlen) /\ qlen > 0
       THEN /\ writer' = "alive"
            /\ val' = [i \in Slots |-> InitVal(i)]
            /\ strong' = [i \in Slots |-> IF i = 0 THEN 2 ELSE 1]
            /\ latest' = 0
            /\ latestStrong' = 1
            /\ index' = InitIdx
       ELSE /\ writer' = "panicked"
            /\ UNCHANGED <<val, strong, latest, latestStrong, index>>
    /\ UNCHANGED <<nr, qlen, latestWeak, wvars, rvars, hist>>

\* ------------------------------------------------------------------ Writer
\* next_idx(): (self.index + 1) % self.q.len()
next_idx_stuck == index % qlen
next_idx_skip == (index + 2) % qlen
next_idx == (index + 1) % qlen

\* Arc::get_mut(slot) is Some iff the slot's Arc is unique
IsUniqueButPublished(i) == strong[i] <= 2
IsUniqueAny(i) == strong[i] >= 1
IsUnique(i) == strong[i] = 1

Min(a, b) == IF a < b THEN a ELSE b

\* a call set(msg) begins.  M is opaque to the code; the k-th call passes the
\* message k, as the Writer of latest_reads does (Message::new(i, -i)).
SetBegin ==
    /\ writer = "alive" /\ wpc = "idle"
    /\ nset < MaxSets
    /\ wpc' = "probe"
    /\ msg' = nset + 1
    /\ probes' = 0
    /\ nset' = nset + 1
    /\ quiet' = [r \in Readers |-> FALSE]
    /\ calm' = (\A r \in Readers : rpc[r] = "idle")
    /\ UNCHANGED <<writer, nr, qlen, val, strong, index, latest,
                   latestStrong, latestWeak, new, old, rvars,
                   hval, last, late>>

\* self.index after Arc::get_mut has succeeded: the Some arm does not assign it
IndexAfterClaimMoved == next_idx
IndexAfterClaim == index

\* one iteration of the loop: idx = next_idx(); Arc::get_mut(q[idx])
SetProbe ==
    /\ wpc = "probe"
    /\ probes' = Min(probes + 1, MaxProbes)
    /\ IF IsUnique(next_idx)
       THEN /\ new' = next_idx
            /\ wpc' = "write"
            /\ index' = IndexAfterClaim
       ELSE /\ index' = next_idx
            /\ UNCHANGED <<new, wpc>>
    /\ UNCHANGED <<writer, nr, qlen, val, strong, latest,
                   latestStrong, latestWeak, msg, old, rvars, hist>>

\* *x = msg; break; then new.clone(), the argument of self.latest.set.
\* Both touch only the slot the Writer has just found unique.
SetWrite ==
    /\ wpc = "write"
    /\ val' = [val EXCEPT ![new] = msg]
    /\ strong' = [strong EXCEPT ![new] = @ + 1]
    /\ wpc' = "take"
    /\ UNCHANGED <<writer, nr, qlen, index, latest,
                   latestStrong, latestWeak, msg, new, old, probes, rvars, hist>>

\* ArcCell::set: take() -- spins while the cell is taken by another thread
SetTake ==
    /\ wpc = "take"
    /\ latest # NoSlot
    /\ old' = latest
    /\ latest' = NoSlot
    /\ wpc' = "put"
    /\ UNCHANGED <<writer, nr, qlen, val, strong, index,
                   latestStrong, latestWeak, msg, new, probes, rvars, hist>>

\* the Arc that ArcCell::set stores: its argument
PutWordOld == old
PutWordNone == NoSlot
PutWord == new

\* ArcCell::set: put(new) -- the publish
SetPut ==
    /\ wpc = "put"
    /\ latest' = PutWord
    /\ wpc' = "dropold"
    /\ UNCHANGED <<writer, nr, qlen, val, strong, index,
                   latestStrong, latestWeak, msg, new, old, probes, rvars, hist>>

\* the Arc returned by ArcCell::set is dropped; set() returns
SetDropOld ==
    /\ wpc = "dropold"
    /\ strong' = [strong EXCEPT ![old] = @ - 1]
    /\ old' = NoSlot
    /\ new' = NoSlot
    /\ wpc' = "idle"
    /\ calm' = FALSE
    /\ UNCHANGED <<writer, nr, qlen, val, index, latest,
                   latestStrong, latestWeak, msg, probes, rvars,
                   nset, hval, last, quiet, late>>

\* drop(Latest), first field: q -- every Arc<M> of the pool is released.
\* set(&mut self) cannot be in progress.
DropQ ==
    /\ writer = "alive" /\ wpc = "idle"
    /\ writer' = "dropping"
    /\ strong' = [i \in Slots |-> strong[i] - 1]
    /\ quiet' = [r \in Readers |-> FALSE]
    /\ UNCHANGED <<nr, qlen, val, index, latest, latestStrong,
                   latestWeak, wvars, rvars, nset, hval, last, late, calm>>

\* Releasing one Arc<ArcCell<M>>.  The last one drops the ArcCell, whose Drop
\* takes the stored Arc<M> and releases it.
ReleasedStrongEager == [strong EXCEPT ![latest] = @ - 1]
ReleasedStrong == IF latestStrong = 1
                  THEN [strong EXCEPT ![latest] = @ - 1]
                  ELSE strong
ReleasedLatestAlways == NoSlot
ReleasedLatest == IF latestStrong = 1 THEN NoSlot ELSE latest

\* drop(Latest), second field: latest
DropLatest ==
    /\ writer = "dropping"
    /\ writer' = "dropped"
    /\ strong' = ReleasedStrong
    /\ latest' = ReleasedLatest
    /\ latestStrong' = latestStrong - 1
    /\ UNCHANGED <<nr, qlen, val, index, latestWeak, wvars,
                   rvars, hist>>

\* ----------------------------------------------------------------- Readers
\* Latest::reader(): Arc::downgrade(&self.latest), called on the Writer
Reader(r) ==
    /\ r <= nr
    /\ writer = "alive" /\ wpc = "idle"
    /\ ~handle[r]
    /\ handle' = [handle EXCEPT ![r] = TRUE]
    /\ latestWeak' = latestWeak + 1
    /\ UNCHANGED <<writer, nr, qlen, val, strong, index, latest,
                   latestStrong, wvars, rpc, held, res, hist>>

\* #[derive(Clone)] for LatestReader: r's handle is a clone of s's
ReaderClone(s, r) ==
    /\ r <= nr /\ s <= nr
    /\ handle[s] /\ ~handle[r]
    /\ handle' = [handle EXCEPT ![r] = TRUE]
    /\ latestWeak' = latestWeak + 1
    /\ UNCHANGED <<writer, nr, qlen, val, strong, index, latest,
                   latestStrong, wvars, rpc, held, res, hist>>

\* drop(LatestReader)
ReaderDrop(r) ==
    /\ handle[r] /\ rpc[r] = "idle"
    /\ handle' = [handle EXCEPT ![r] = FALSE]
    /\ latestWeak' = latestWeak - 1
    /\ UNCHANGED <<writer, nr, qlen, val, strong, index, latest,
                   latestStrong, wvars, rpc, held, res, hist>>

\* Weak::upgrade succeeds iff a strong reference to the ArcCell exists
UpgradesIfShared == latestStrong > 1
Upgrades == latestStrong > 0

\* get() begins: self.0.upgrade(); None => None
GetUpgrade(r) ==
    /\ handle[r] /\ rpc[r] = "idle"
    /\ IF Upgrades
       THEN /\ latestStrong' = latestStrong + 1
            /\ rpc' = [rpc EXCEPT ![r] = "take"]
            /\ res' = [res EXCEPT ![r] = NoResult]
            /\ late' = [late EXCEPT ![r] = (writer = "dropped")]
            /\ quiet' = [quiet EXCEPT ![r] = (writer = "alive" /\ wpc = "idle")]
            /\ calm' = FALSE
       ELSE /\ res' = [res EXCEPT ![r] = Absent]
            /\ UNCHANGED <<latestStrong, rpc, late, quiet, calm>>
    /\ UNCHANGED <<writer, nr, qlen, val, strong, index, latest,
                   latestWeak, wvars, handle, held, nset, hval, last>>

\* arc.get(): ArcCell::take -- spins while the cell is taken by another thread
GetTake(r) ==
    /\ rpc[r] = "take"
    /\ latest # NoSlot
    /\ held' = [held EXCEPT ![r] = latest]
    /\ hval' = [hval EXCEPT ![r] = val[latest]]
    /\ latest' = NoSlot
    /\ rpc' = [rpc EXCEPT ![r] = "put"]
    /\ UNCHANGED <<writer, nr, qlen, val, strong, index,
                   latestStrong, latestWeak, wvars, handle, res,
                   nset, last, quiet, late, calm>>

\* arc.get(): let out = t.clone(); self.put(t)
GetPut(r) ==
    /\ rpc[r] = "put"
    /\ strong' = [strong EXCEPT ![held[r]] = @ + 1]
    /\ latest' = held[r]
    /\ rpc' = [rpc EXCEPT ![r] = "read"]
    /\ UNCHANGED <<writer, nr, qlen, val, index,
                   latestStrong, latestWeak, wvars, handle, held, res, hist>>

\* *arc.get(): the M behind the Arc that ArcCell::get returned
ReadValueNeighbour(r) == val[(held[r] + 1) % qlen]
ReadValue(r) == val[held[r]]

\* (*arc.get()).clone(): the M is cloned out of the slot, then the temporary
\* Arc<M> is dropped
GetRead(r) ==
    /\ rpc[r] = "read"
    /\ res' = [res EXCEPT ![r] = ReadValue(r)]
    /\ strong' = [strong EXCEPT ![held[r]] = @ - 1]
    /\ held' = [held EXCEPT ![r] = NoSlot]
    /\ rpc' = [rpc EXCEPT ![r] = "droparc"]
    /\ UNCHANGED <<writer, nr, qlen, val, index, latest,
                   latestStrong, latestWeak, wvars, handle, hist>>

\* the upgraded Arc<ArcCell<M>> is dropped; get() returns Some(res[r])
GetDropArc(r) ==
    /\ rpc[r] = "droparc"
    /\ strong' = ReleasedStrong
    /\ latest' = ReleasedLatest
    /\ latestStrong' = latestStrong - 1
    /\ rpc' = [rpc EXCEPT ![r] = "idle"]
    /\ last' = IF r = Observer THEN res[r] ELSE last
    /\ res' = [res EXCEPT ![r] = NoResult]
    /\ quiet' = [quiet EXCEPT ![r] = FALSE]
    /\ late' = [late EXCEPT ![r] = FALSE]
    /\ UNCHANGED <<writer, nr, qlen, val, index, latestWeak,
                   wvars, handle, held, nset, hval, calm>>

\* ----------------------------------------------------------- specification
SetStep == SetProbe \/ SetWrite \/ SetTake \/ SetPut \/ SetDropOld

GetStep(r) == GetTake(r) \/ GetPut(r) \/ GetRead(r) \/ GetDropArc(r)

Next ==
    \/ \E debugAssertions \in BOOLEAN : New(debugAssertions)
    \/ SetBegin
    \/ SetProbe
    \/ SetWrite
    \/ SetTake
    \/ SetPut
    \/ SetDropOld
    \/ DropQ
    \/ DropLatest
    \/ \E r \in Readers : Reader(r)
    \/ \E s, r \in Readers : ReaderClone(s, r)
    \/ \E r \in Readers : ReaderDrop(r)
    \/ \E r \in Readers : GetUpgrade(r)
    \/ \E r \in Readers : GetTake(r)
    \/ \E r \in Readers : GetPut(r)
    \/ \E r \in Readers : GetRead(r)
    \/ \E r \in Readers : GetDropArc(r)

Spec == Init /\ [][Next]_vars

\* The Writer's thread is scheduled: a step of set() that can be taken is
\* eventually taken.  Nothing is assumed of the Readers' threads.
WriterFair == Spec /\ WF_vars(SetStep)

\* The same, and a set() spinning in ArcCell::take gets the cell if the cell is
\* free again and again.
WriterStrongFair == Spec /\ SF_vars(SetStep)

TypeOK ==
    /\ writer \in {"none", "alive", "dropping", "dropped", "panicked"}
    /\ wpc \in {"idle", "probe", "write", "take", "put", "dropold"}
    /\ \A r \in Readers : rpc[r] \in {"idle", "take", "put", "read", "droparc"}
    /\ \A i \in DOMAIN strong : strong[i] >= 0
    /\ latestStrong >= 0 /\ latestWeak >= 0

\* ------------------------------------------------------------------ claims
\* slot i is referenced from outside the pool: by the published pointer or by
\* an Arc<M> a Reader holds
Referenced(i) == latest = i \/ \E r \in Readers : held[r] = i

\* C1: the slot the Writer is overwriting is neither the published slot nor
\* held by any Reader, and the value behind an Arc<M> a Reader holds is the
\* value it had when the Reader acquired the Arc: no set() changes it.
C1_ExclusiveWrite ==
    /\ wpc = "write" => ~Referenced(new)
    /\ \A r \in Readers : held[r] # NoSlot => val[held[r]] = hval[r]

\* C1 witness: capacity 2, a Reader still holds the Arc of slot 0 after a
\* whole set() has published the other slot.
C1_Witness ==
    /\ qlen = 2 /\ wpc = "idle" /\ nset >= 1
    /\ \E r \in Readers : /\ rpc[r] = "read"
                          /\ latest # NoSlot /\ latest # held[r]
                          /\ val[latest] = nset

\* C2: the Observer never obtains a value published earlier than the value
\* its previous successful get() returned (messages are numbered in publish
\* order).
C2_Monotonic == res[Observer] >= 0 => res[Observer] >= last

\* C2 witness: the Observer obtained message 1 and now obtains message 2.
C2_Witness == last = 1 /\ res[Observer] = 2

\* the number of set() calls that have completed
Completed == IF wpc = "idle" THEN nset ELSE nset - 1

\* C3: a get() that begins after set(v1) .. set(vn), n >= 1, have completed,
\* and runs while the Writer exists and makes no further call, obtains vn.
C3_LastValue ==
    \A r \in Readers :
        (quiet[r] /\ nset >= 1 /\ res[r] # NoResult) => res[r] = Completed

\* C3 witness: such a get() has obtained its value after two set() calls,
\* with capacity 2 and with capacity 3.
C3_Witness ==
    \E r \in Readers : quiet[r] /\ nset = 2 /\ res[r] = 2 /\ qlen >= 2

\* C9: before any set() call every slot holds the default value, and a get()
\* that began while the Writer existed obtains the default value.
C9_DefaultBeforeSet ==
    nset = 0 =>
        /\ \A i \in DOMAIN val : val[i] = Default
        /\ \A r \in Readers : (quiet[r] /\ res[r] # NoResult) => res[r] = Default

\* C9 witness: a get() has obtained the default value from a pool of MaxCap
\* slots before any set().
C9_Witness ==
    \E r \in Readers : nset = 0 /\ qlen = MaxCap /\ quiet[r] /\ res[r] = Default

\* C4: a get() that begins after the Writer (of a pool of capacity >= 2) has
\* been dropped obtains no value: it returns Absent.
C4_AbsentAfterDrop ==
    \A r \in Readers : (qlen >= MinCap /\ late[r]) => res[r] \in {NoResult, Absent}

AllReferenced == \A i \in Slots : Referenced(i)

C7_GetNeverWaits ==
    \A r \in Readers : rpc[r] # "idle" => ENABLED GetStep(r)

\* C8: with capacity >= 2, a set() in progress completes by the Writer's steps
\* alone, whatever the Readers do or fail to do.
C8_SetCompletesAlone == (qlen >= MinCap /\ wpc # "idle") ~> (wpc = "idle")

\* C10: a Writer exists only with a pool of at least 2 slots.
C10_NoSmallPool == writer = "alive" => qlen >= MinCap

\* The slot the ArcCell refers to: its word, or, while a thread is between
\* ArcCell::take and ArcCell::put, the word that thread has taken.
Published ==
    IF latest # NoSlot THEN latest
    ELSE IF wpc = "put" THEN old
    ELSE IF \E r \in Readers : rpc[r] = "put"
         THEN held[CHOOSE r \in Readers : rpc[r] = "put"]
         ELSE NoSlot

\* C11: while the Writer exists Weak::upgrade succeeds, so no get() that
\* begins then returns Absent: an Absent result is seen only once the Writer
\* has been dropped, and a get() that has upgraded obtains a value.
C11_ValueWhileWriterExists ==
    /\ writer = "alive" => Upgrades
    /\ \A r \in Readers : /\ res[r] = Absent => writer = "dropped"
                          /\ rpc[r] = "droparc" => res[r] >= 0

\* C11 witness: a get() has obtained message 1 while the set() that publishes
\* message 2 is between ArcCell::take and ArcCell::put.
C11_Witness ==
    \E r \in Readers : rpc[r] = "droparc" /\ res[r] = 1 /\ wpc = "put" /\ nset = 2

\* C12 (as stated): when a set() call completes, the cursor is the index of
\* the slot the call overwrote and published.
C12_CursorIsPublished == wpc = "dropold" => index = new

\* C12 (amended): when a set() call completes, the cursor is the index before
\* (cyclically) the slot the call overwrote and published.
C12_CursorPrecedesPublished ==
    wpc = "dropold" =>
        /\ (index + 1) % qlen = new
        /\ Published = new
        /\ val[new] = msg

\* C12 witness: a set() on a pool of 3 slots completes after failed probes
\* have moved the cursor.
C12_Witness == wpc = "dropold" /\ qlen = 3 /\ probes = 3

\* C13: a slot that is claimed and written but not yet published is referenced
\* by nothing a Reader can reach, no Reader holds or obtains a message whose
\* publish step has not happened, and the value a get() obtains is the value
\* the published slot had when the get() took the published pointer.
PublishedCount == IF wpc \in {"idle", "dropold"} THEN nset ELSE nset - 1

C13_ObservableAtPublish ==
    /\ wpc \in {"write", "take", "put"} => ~Referenced(new)
    /\ \A r \in Readers :
          /\ held[r] # NoSlot => val[held[r]] <= PublishedCount
          /\ res[r] >= 0 => res[r] <= PublishedCount
          /\ rpc[r] = "droparc" => res[r] = hval[r]

\* C13 witness: message 2 is written into its slot and not yet published while
\* a Reader holds the slot of message 1.
C13_Witness ==
    /\ wpc = "take" /\ nset = 2 /\ val[new] = 2
    /\ \E r \in Readers : rpc[r] = "read" /\ val[held[r]] = 1

\* C14: while the Writer exists the published pointer refers to one slot of
\* the pool, and the pool has exactly the slots given at construction.
C14_PublishedInPool ==
    writer = "alive" =>
        /\ Published \in Slots
        /\ DOMAIN val = Slots /\ DOMAIN strong = Slots
        /\ Cardinality(DOMAIN val) = qlen

\* C14 witness: after two set() calls on a pool of MaxCap slots, a Reader has
\* the published pointer's word in hand.
C14_Witness ==
    /\ writer = "alive" /\ qlen = MaxCap /\ nset = 2 /\ wpc = "idle"
    /\ latest = NoSlot /\ Published \in Slots

\* C19: after a completed set() the slot after the cursor (cyclically) is the
\* published slot, so every set() after the first fails its first probe and
\* needs at least 2 probe attempts.
C19_FirstProbeHitsPublished ==
    /\ (writer = "alive" /\ wpc = "idle" /\ nset >= 1)
           => (index + 1) % qlen = Published
    /\ (nset >= 2 /\ wpc = "write") => probes >= 2
    /\ (nset >= 2 /\ wpc = "probe" /\ probes = 0) => ~IsUnique(next_idx)

\* C19 witness: the second set() claims its slot at its second probe.
C19_Witness == nset = 2 /\ wpc = "write" /\ probes = 2

\* A step of a Reader operation: reader(), clone, drop, or a step of get()
ReaderStep ==
    \E r \in Readers :
        \/ GetUpgrade(r) \/ GetStep(r) \/ ReaderDrop(r)
        \/ \E s \in Readers : ReaderClone(s, r)

\* The strong count of slot i without the temporary Arc<M> clones that
\* get() calls hold
CountWithoutGets(i) ==
    strong[i] - Cardinality({r \in Readers : rpc[r] = "read" /\ held[r] = i})

\* C15: while the Writer exists no step of a Reader operation changes a
\* slot's value, the cursor, the pool, the Writer's position in set() or the
\* slot the Published Pointer references; a slot's strong count changes only
\* by the temporary clone a get() holds.
C15_ReadersLeaveWriterState ==
    [][(ReaderStep /\ writer # "dropped") =>
          /\ val' = val /\ index' = index /\ qlen' = qlen
          /\ writer' = writer /\ wvars' = wvars
          /\ Published' = Published
          /\ \A i \in Slots : CountWithoutGets(i)' = CountWithoutGets(i)]_vars

\* C15 witness: a get() has gone through take, put and read and is about to
\* return while the Writer is in the middle of its second set() and a second
\* handle exists.
C15_Witness ==
    /\ writer = "alive" /\ nset = 2 /\ wpc = "write" /\ latestWeak = 2
    /\ \E r \in Readers : rpc[r] = "droparc" /\ res[r] = 1

\* C16: with capacity > reader threads + 1, a set() in progress reaches its
\* last step having made at most capacity probe attempts, whatever the
\* Readers do or fail to do.
C16_CompletesWithinCapacity ==
    (writer = "alive" /\ qlen >= nr + 2 /\ wpc = "probe")
        ~> (wpc = "dropold" /\ probes <= qlen)

\* C17: a set() during which no get() is in progress needs at most 2 probe
\* attempts on a pool of 2 or more slots, always has a step to take, and
\* completes (or a get() begins).
C17_TwoProbesWithoutReaders ==
    /\ [](calm /\ qlen >= MinCap => probes <= 2 /\ ENABLED SetStep)
    /\ ((calm /\ qlen >= MinCap) ~> (wpc = "idle" \/ ~calm))

\* C17 witness: the second of two consecutive set() calls, with no get() in
\* progress since it began, claims a slot at its second probe on the largest
\* pool.
C17_Witness ==
    calm /\ wpc = "write" /\ probes = 2 /\ nset = MaxSets /\ qlen = MaxCap

\* 1 if the ArcCell refers to slot i
PublishedRef(i) == IF Published = i THEN 1 ELSE 0

\* the number of Readers holding the temporary Arc<M> clone of slot i
ReaderRefs(i) == Cardinality({r \in Readers : rpc[r] = "read" /\ held[r] = i})

\* the Arc<M> temporaries of set(): new.clone() until it is put into the cell,
\* and the Arc that ArcCell::set returns until it is dropped
WriterRefs(i) ==
    (IF wpc \in {"take", "put"} /\ new = i THEN 1 ELSE 0)
        + (IF wpc = "dropold" /\ old = i THEN 1 ELSE 0)

\* C18 (as stated): while the Writer exists, each slot's strong count is
\* 1 (the pool) + 1 if it is published + the number of Readers holding it.
C18_CountIdentity ==
    writer = "alive" =>
        \A i \in Slots : strong[i] = 1 + PublishedRef(i) + ReaderRefs(i)

\* C18 (amended): while the Writer exists, each slot's strong count is
\* 1 (the pool) + 1 if it is published + the number of Readers holding it
\* + the temporaries of a set() that is past its claim; while the Writer is
\* idle or probing a slot has count 1 iff it is neither published nor held;
\* and the slot a Reader acquires is the slot published at that moment.
C18_CountWithTemporaries ==
    /\ [](writer = "alive" =>
            \A i \in Slots :
                /\ strong[i] = 1 + PublishedRef(i) + ReaderRefs(i) + WriterRefs(i)
                /\ wpc \in {"idle", "probe"} =>
                       (strong[i] = 1 <=> (Published # i /\ ReaderRefs(i) = 0)))
    /\ [][\A r \in Readers :
            (held'[r] # held[r] /\ held'[r] # NoSlot) => held'[r] = Published]_vars

\* C18 witness: a Reader holds the slot that the set() in progress has just
\* replaced and whose old Arc the Writer has not dropped yet.
C18_Witness ==
    /\ writer = "alive" /\ wpc = "dropold"
    /\ \E r \in Readers : rpc[r] = "read" /\ held[r] = old /\ strong[old] = 3

\* C20 (as stated): a get() in progress when the Writer is dropped returns
\* Absent or the last value the Writer published.
C20_AbsentOrLast ==
    \A r \in Readers :
        (writer = "dropped" /\ ~late[r] /\ rpc[r] = "droparc")
            => res[r] \in {Absent, nset}

\* C20 (amended): after the Writer is dropped, while a Reader is inside
\* get() the ArcCell lives, refers to a live slot and that slot holds the
\* last published value; a slot a Reader holds is live and unchanged; the
\* get() returns the value it acquired, a published value and never Absent;
\* and a get() that takes the pointer after the drop acquires the last
\* published value.
C20_SnapshotSurvivesDrop ==
    /\ [](\A r \in Readers :
            (writer = "dropped" /\ rpc[r] # "idle") =>
                /\ latestStrong >= 1
                /\ Published \in Slots
                /\ strong[Published] >= 1 /\ val[Published] = nset
                /\ held[r] # NoSlot =>
                       strong[held[r]] >= 1 /\ val[held[r]] = hval[r]
                /\ rpc[r] = "droparc" =>
                       res[r] = hval[r] /\ res[r] >= Default /\ res[r] <= nset)
    /\ [][\A r \in Readers :
            (writer = "dropped" /\ rpc[r] = "take" /\ rpc'[r] = "put")
                => hval'[r] = nset]_vars

\* C20 witness: a get() that was in progress when the Writer was dropped is
\* about to return the value of the first of two set() calls, as the last
\* holder of the ArcCell.
C20_Witness ==
    /\ writer = "dropped" /\ nset = 2 /\ latestStrong = 1
    /\ \E r \in Readers : ~late[r] /\ rpc[r] = "droparc" /\ res[r] = 1

====
